---- MODULE Spec2Model ----
(***************************************************************************)
(* Model of buzzer's eBPF program generator:                               *)
(*   - Program (New / construct / tracked registers),                      *)
(*   - the random ALU and JMP-reg instruction factories,                   *)
(*   - the InstructionSequence builder.                                    *)
(***************************************************************************)
EXTENDS Integers, Sequences, FiniteSets, TLC

VARIABLES
    pc,            \* position of the caller / strategy in the Program lifecycle
    logMap,        \* Program.logMap
    mapHandle,     \* what create_bpf_map returned to New
    MinRegister,   \* Program.MinRegister
    MaxRegister,   \* Program.MaxRegister
    trackedRegs,   \* Program.trackedRegs
    progRoot,          \* Program.root (Nil or the node returned by Generate)
    size,          \* Program.size
    constructErr,  \* what Program.construct returned
    newRet,        \* what New returned to its caller
    generateCalls, \* number of times Gen.Generate was invoked
    ret,           \* value returned by the last factory / method call
    preRegs,       \* trackedRegs at the moment the last call started
    marked,        \* history: every argument MarkRegisterInitialized was called with
    jmp,           \* locals of a running GenerateRandomJmpRegInstruction call; iter is
                   \* the parity of the iterations its current loop has run
    instructions,  \* argument list of InstructionSequence
    built          \* what InstructionSequence returned, and the nodes' links

progVars == <<pc, logMap, mapHandle, MinRegister, MaxRegister, trackedRegs, progRoot, size,
              constructErr, newRet, generateCalls, ret, preRegs, marked, jmp>>
seqVars == <<instructions, built>>
vars == <<pc, logMap, mapHandle, MinRegister, MaxRegister, trackedRegs, progRoot, size,
          constructErr, newRet, generateCalls, ret, preRegs, marked, jmp,
          instructions, built>>

-----------------------------------------------------------------------------
(* Bounds of the model *)

\* MinRegister and MaxRegister are drawn from 0..RegBound.
RegBound == 2
\* Direct MarkRegisterInitialized calls stop once the list has this length.
MaxTracked == 2
\* Longest argument list given to InstructionSequence.
MaxLen == 4

-----------------------------------------------------------------------------
(* Values *)

\* Go's nil for an Instruction.
Nil == 0
\* Go's nil for a *Register.
NilRegister == -1
\* The sentinel GetRandomRegister returns on an empty list.
NoRegister == 255
\* R0..R10.
LastRegister == 10

\* ALU operations, already shifted into the high nibble.
AluLsh == 96
AluRsh == 112
AluNeg == 128
AluMov == 176
AluArsh == 192
\* JMP operations, already shifted into the high nibble.
JmpJA == 0
JmpJGT == 32
JmpCALL == 128
JmpExit == 144
\* Instruction classes.
InsClassAlu == 4
InsClassJmp == 5
InsClassAlu64 == 7

NoInstr == [kind |-> "none"]

\* uint8(x) << 4
Shl4(x) == (x * 16) % 256

\* RandRange(lo, hi): the values one draw can give.
RandRange(lo, hi) == lo..hi

\* A draw of RandRange(0, 0xFFFFFFFF), as its two 16-bit halves <<hi, lo>>.
ImmDraws == { <<0, 33>>, <<0, 64>>, <<32768, 0>>, <<65535, 65503>>, <<65535, 65535>> }

\* int32(u) of a 32-bit unsigned u = hi * 2^16 + lo.
ToInt32(u) ==
    IF u[1] >= 32768 THEN (u[1] - 65536) * 65536 + u[2]
    ELSE u[1] * 65536 + u[2]

\* Go's a % b on signed integers (the result has the sign of a).
GoRem(a, b) ==
    IF a >= 0 \/ a % b = 0 THEN a % b
    ELSE (a % b) - b

\* GetRegisterFromNumber(n), the error dropped as the callers do.
GetRegisterFromNumber(n) == IF n \in 0..LastRegister THEN n ELSE NilRegister

InRange(reg, lo, hi) == reg >= lo /\ reg <= hi

-----------------------------------------------------------------------------
(* Program methods *)

IsRegisterInitialized(regs, regNo) == \E i \in 1..Len(regs) : regNo = regs[i]

\* GetRandomRegister with the emptiness test widened to lists of one entry.
GetRandomRegisterSentinelOnOne(regs, lo, hi) ==
    IF Len(regs) <= 1 THEN {NoRegister}
    ELSE { regs[i + 1] : i \in { j \in RandRange(0, Len(regs) - 1) :
                                   InRange(regs[j + 1], lo, hi) } }

\* The values GetRandomRegister can return: 0xFF on an empty list, else an
\* entry the resampling loop accepts. A non-empty list without an in-range
\* entry never leaves the loop, so the call has no return value.
GetRandomRegister(regs, lo, hi) ==
    IF Len(regs) = 0 THEN {NoRegister}
    ELSE { regs[i + 1] : i \in { j \in RandRange(0, Len(regs) - 1) :
                                   InRange(regs[j + 1], lo, hi) } }

\* MarkRegisterInitialized without its range test.
MarkRegisterInitializedNoRangeCheck(regs, reg, lo, hi) == Append(regs, reg)

\* The list after MarkRegisterInitialized(reg).
MarkRegisterInitialized(regs, reg, lo, hi) ==
    IF ~InRange(reg, lo, hi) THEN regs
    ELSE Append(regs, reg)

\* root.NumerateInstruction(0) on the tree Generate returned; a root is
\* represented by the number of nodes reachable from it.
NumerateInstruction(ptr) == ptr

-----------------------------------------------------------------------------
(* Random ALU factory *)

AluImm(op, insClass, dstReg, value) ==
    [kind |-> "aluimm", op |-> op, class |-> insClass, dst |-> dstReg,
     imm |-> value, src |-> NilRegister]

AluReg(op, insClass, dstReg, srcReg) ==
    [kind |-> "alureg", op |-> op, class |-> insClass, dst |-> dstReg,
     imm |-> 0, src |-> srcReg]

\* The switch on op without its AluNeg case.
ImmValueNoNegCase(op, insClass, value) ==
    IF op \in {AluRsh, AluLsh, AluArsh}
    THEN GoRem(value, IF insClass = InsClassAlu THEN 32 ELSE 64)
    ELSE value

\* The immediate after the switch on op.
ImmValue(op, insClass, value) ==
    IF op \in {AluRsh, AluLsh, AluArsh}
    THEN GoRem(value, IF insClass = InsClassAlu THEN 32 ELSE 64)
    ELSE IF op = AluNeg THEN 0
    ELSE value

\* The MOV bookkeeping without the IsRegisterInitialized test.
MovMarksAlways(op, dstReg, regs, lo, hi) ==
    IF op = AluMov
    THEN MarkRegisterInitialized(regs, dstReg, lo, hi)
    ELSE regs

\* The tracked list after the MOV bookkeeping of both generators.
\* dstReg.RegisterNumber() on a nil register does not return.
MovMarks(op, dstReg, regs, lo, hi) ==
    IF op = AluMov /\ ~IsRegisterInitialized(regs, dstReg)
    THEN MarkRegisterInitialized(regs, dstReg, lo, hi)
    ELSE regs

\* generateImmAluInstruction: the instruction, the tracked list afterwards,
\* and whether the call dereferenced a nil register.
generateImmAluInstruction(op, insClass, dstReg, regs, lo, hi, draw) ==
    [instr |-> AluImm(op, insClass, dstReg, ImmValue(op, insClass, ToInt32(draw))),
     regs  |-> MovMarks(op, dstReg, regs, lo, hi),
     panic |-> op = AluMov /\ dstReg = NilRegister]

\* generateRegAluInstruction without the resampling loop.
ResampleNegSkipped(op) == {op}

\* The ops the resampling loop of generateRegAluInstruction can leave with.
ResampleNeg(op) ==
    IF op = AluNeg THEN { Shl4(r) : r \in RandRange(0, 12) } \ {AluNeg}
    ELSE {op}

\* generateRegAluInstruction, for the op the resampling loop left with.
generateRegAluInstruction(op, insClass, dstReg, regs, lo, hi, srcNo) ==
    [instr |-> AluReg(op, insClass, dstReg, GetRegisterFromNumber(srcNo)),
     regs  |-> MovMarks(op, dstReg, regs, lo, hi),
     panic |-> op = AluMov /\ dstReg = NilRegister]

\* The destination register number drawn for op.
AluDstRegs(op, regs, lo, hi) ==
    IF op = AluMov THEN RandRange(lo, hi)
    ELSE GetRandomRegister(regs, lo, hi)

-----------------------------------------------------------------------------
(* Program lifecycle: New, construct and the strategy's Generate hook *)

\* What create_bpf_map can return.
MapHandles == {-1, 3}
\* What Gen.Generate can return: nil, or a root with that many nodes.
GenerateResults == {Nil, 1, 2}
\* The register numbers the strategy passes to MarkRegisterInitialized.
MarkArgs == 0..(RegBound + 1)

NoFrame == [op |-> 0, dst |-> NilRegister, src |-> NilRegister, iter |-> 0]
NoResult == [prog |-> FALSE, err |-> "pending"]
NotBuilt == [state |-> "none"]

ProgInit ==
    /\ pc = "idle"
    /\ logMap = 0
    /\ mapHandle = 0
    /\ MinRegister = 0
    /\ MaxRegister = 0
    /\ trackedRegs = <<>>
    /\ progRoot = Nil
    /\ size = 0
    /\ constructErr = "pending"
    /\ newRet = NoResult
    /\ generateCalls = 0
    /\ ret = NoInstr
    /\ preRegs = <<>>
    /\ marked = {}
    /\ jmp = NoFrame

\* The failure test with the wrong bound.
MapCreationFailedBelowMinusOne(lMap) == lMap < -1

\* The test New makes on the handle create_bpf_map returned.
MapCreationFailed(lMap) == lMap < 0

\* LogMap(): the internal log map fd.
LogMap == logMap

\* New up to the point where construct hands control to Gen.Generate, or
\* all of New when the map could not be created.
New ==
    /\ pc = "idle"
    /\ \E lMap \in MapHandles, minReg \in 0..RegBound, maxReg \in 0..RegBound :
        /\ minReg <= maxReg
        /\ mapHandle' = lMap
        /\ IF MapCreationFailed(lMap)
           THEN /\ newRet' = [prog |-> FALSE, err |-> "MapCreationFailed"]
                /\ pc' = "returned"
                /\ UNCHANGED <<logMap, MinRegister, MaxRegister, generateCalls>>
           ELSE /\ logMap' = lMap
                /\ MinRegister' = minReg
                /\ MaxRegister' = maxReg
                /\ generateCalls' = generateCalls + 1
                /\ pc' = "generate"
                /\ UNCHANGED newRet
    /\ trackedRegs' = <<>>
    /\ UNCHANGED <<progRoot, size, constructErr, ret, preRegs, marked, jmp>>
    /\ UNCHANGED seqVars

\* The rest of construct once Generate has returned ptr.
construct(ptr) ==
    IF ptr # Nil
    THEN [root |-> ptr, size |-> NumerateInstruction(ptr), err |-> "none"]
    ELSE [root |-> progRoot, size |-> size, err |-> "EmptyProgram"]

\* What New returns after prog.construct().
NewReturn(cerr) == [prog |-> TRUE, err |-> "none"]

\* Generate returns; construct finishes; New returns to its caller.
GenerateReturns ==
    /\ pc = "generate"
    /\ \E ptr \in GenerateResults :
        LET c == construct(ptr) IN
        /\ progRoot' = c.root
        /\ size' = c.size
        /\ constructErr' = c.err
        /\ newRet' = NewReturn(c.err)
    /\ pc' = "returned"
    /\ UNCHANGED <<logMap, mapHandle, MinRegister, MaxRegister, trackedRegs, generateCalls,
                   ret, preRegs, marked, jmp>>
    /\ UNCHANGED seqVars

\* The strategy calls prog.MarkRegisterInitialized(reg).
CallMarkRegisterInitialized ==
    /\ pc = "generate"
    /\ Len(trackedRegs) < MaxTracked
    /\ \E reg \in MarkArgs :
        /\ trackedRegs' = MarkRegisterInitialized(trackedRegs, reg, MinRegister, MaxRegister)
        /\ marked' = marked \cup {reg}
        /\ ret' = [kind |-> "mark", reg |-> reg]
    /\ preRegs' = trackedRegs
    /\ pc' = "got"
    /\ UNCHANGED <<logMap, mapHandle, MinRegister, MaxRegister, progRoot, size, constructErr,
                   newRet, generateCalls, jmp>>
    /\ UNCHANGED seqVars

\* The strategy calls prog.GetRandomRegister().
CallGetRandomRegister ==
    /\ pc = "generate"
    /\ \E r \in GetRandomRegister(trackedRegs, MinRegister, MaxRegister) :
        ret' = [kind |-> "reg", reg |-> r]
    /\ preRegs' = trackedRegs
    /\ pc' = "got"
    /\ UNCHANGED <<logMap, mapHandle, MinRegister, MaxRegister, trackedRegs, progRoot, size,
                   constructErr, newRet, generateCalls, marked, jmp>>
    /\ UNCHANGED seqVars

\* One GenerateRandomAluInstruction call, for outcome o of the generator chosen;
\* the op drawn at the start of the call is kept beside the instruction.
AluReturns(o, op, dstReg, drawn) ==
    /\ IF o.panic
       THEN /\ pc' = "panicked"
            /\ ret' = NoInstr
            /\ UNCHANGED <<trackedRegs, marked>>
       ELSE /\ pc' = "got"
            /\ ret' = o.instr @@ [drawn |-> drawn]
            /\ trackedRegs' = o.regs
            /\ marked' = IF op = AluMov /\ ~IsRegisterInitialized(trackedRegs, dstReg)
                         THEN marked \cup {dstReg} ELSE marked
    /\ preRegs' = trackedRegs
    /\ UNCHANGED <<logMap, mapHandle, MinRegister, MaxRegister, progRoot, size, constructErr,
                   newRet, generateCalls, jmp>>
    /\ UNCHANGED seqVars

GenerateRandomAluInstruction ==
    /\ pc = "generate"
    /\ \E rawOp \in RandRange(0, 12) :
       LET op == Shl4(rawOp) IN
       \E dstReg \in AluDstRegs(op, trackedRegs, MinRegister, MaxRegister) :
       LET dReg == GetRegisterFromNumber(dstReg) IN
       \E classCoin \in RandRange(0, 1), formCoin \in RandRange(0, 1) :
       LET insClass == IF classCoin = 0 THEN InsClassAlu ELSE InsClassAlu64 IN
       IF formCoin = 0
       THEN \E draw \in ImmDraws :
                AluReturns(generateImmAluInstruction(op, insClass, dReg, trackedRegs,
                               MinRegister, MaxRegister, draw), op, dReg, op)
       ELSE \E srcNo \in GetRandomRegister(trackedRegs, MinRegister, MaxRegister) :
            \E op2 \in ResampleNeg(op) :
                AluReturns(generateRegAluInstruction(op2, insClass, dReg, trackedRegs,
                               MinRegister, MaxRegister, srcNo), op2, dReg, op)

-----------------------------------------------------------------------------
(* Random JMP-reg factory *)

RandomJumpOp == RandRange(0, 13)

\* IsConditional forgetting the unconditional jump.
IsConditionalNoJA(op) == ~(op = JmpExit \/ op = JmpCALL)

IsConditional(op) == ~(op = JmpExit \/ op = JmpCALL \/ op = JmpJA)

RegJmp(op, dstReg, srcReg) ==
    [kind |-> "regjmp", op |-> op, class |-> InsClassJmp, dst |-> dstReg,
     imm |-> 0, src |-> srcReg]

\* One iteration of the opcode loop; on leaving it, both registers are drawn.
JmpRegOpLoop ==
    /\ pc \in {"generate", "jmp_op"}
    /\ \E raw \in RandomJumpOp :
        LET op == Shl4(raw) IN
        IF IsConditional(op)
        THEN /\ \E d \in GetRandomRegister(trackedRegs, MinRegister, MaxRegister),
                   s \in GetRandomRegister(trackedRegs, MinRegister, MaxRegister) :
                   jmp' = [op |-> op, dst |-> GetRegisterFromNumber(d),
                           src |-> GetRegisterFromNumber(s), iter |-> 0]
             /\ pc' = "jmp_src"
        ELSE /\ pc' = "jmp_op"
             /\ jmp' = [jmp EXCEPT !.iter = 1 - jmp.iter]
    /\ preRegs' = IF pc = "generate" THEN trackedRegs ELSE preRegs
    /\ ret' = IF pc = "generate" THEN NoInstr ELSE ret
    /\ UNCHANGED <<logMap, mapHandle, MinRegister, MaxRegister, trackedRegs, progRoot, size,
                   constructErr, newRet, generateCalls, marked>>
    /\ UNCHANGED seqVars

\* One iteration of `for srcReg == dstReg`.
JmpRegSrcLoop ==
    /\ pc = "jmp_src"
    /\ jmp.src = jmp.dst
    /\ \E s \in GetRandomRegister(trackedRegs, MinRegister, MaxRegister) :
        jmp' = [jmp EXCEPT !.src = GetRegisterFromNumber(s), !.iter = 1 - jmp.iter]
    /\ UNCHANGED <<pc, logMap, mapHandle, MinRegister, MaxRegister, trackedRegs, progRoot, size,
                   constructErr, newRet, generateCalls, ret, preRegs, marked>>
    /\ UNCHANGED seqVars

\* The loop is left and the instruction returned.
JmpRegReturn ==
    /\ pc = "jmp_src"
    /\ jmp.src # jmp.dst
    /\ ret' = RegJmp(jmp.op, jmp.dst, jmp.src)
    /\ jmp' = NoFrame
    /\ pc' = "got"
    /\ UNCHANGED <<logMap, mapHandle, MinRegister, MaxRegister, trackedRegs, progRoot, size,
                   constructErr, newRet, generateCalls, preRegs, marked>>
    /\ UNCHANGED seqVars

\* The strategy takes the value a call returned and goes on generating.
StrategyTakes ==
    /\ pc = "got"
    /\ pc' = "generate"
    /\ ret' = NoInstr
    /\ preRegs' = <<>>
    /\ UNCHANGED <<logMap, mapHandle, MinRegister, MaxRegister, trackedRegs, progRoot, size,
                   constructErr, newRet, generateCalls, marked, jmp>>
    /\ UNCHANGED seqVars

-----------------------------------------------------------------------------
(* Sequence builder *)

\* The authoring helpers. A node is identified by its position in the
\* argument list of InstructionSequence; these are the fields the builder reads.
Mov64 == [kind |-> "alu", op |-> AluMov, fbs |-> 0]
Exit == [kind |-> "immjmp", op |-> JmpExit, fbs |-> 0]
JmpGT(offset) == [kind |-> "immjmp", op |-> JmpJGT, fbs |-> offset]
JmpLT(offset) == [kind |-> "regjmp", op |-> JmpJGT, fbs |-> offset]
Jmp(offset) == [kind |-> "immjmp", op |-> JmpJA, fbs |-> offset]

\* The instructions the argument lists are made of.
Authored == {Mov64, Exit, Jmp(0), JmpGT(-1), JmpGT(0), JmpGT(1), JmpGT(2),
             JmpLT(0), JmpLT(1)}

\* The successor fields of a freshly authored node.
NoLinks == [next |-> Nil, false |-> Nil, true |-> Nil]

\* ptr.SetNextInstruction(n) on a straight instruction.
SetNextInstruction(heap, ptr, n) == [heap EXCEPT ![ptr].next = n]

RECURSIVE instructionSequenceLoop(_, _, _, _, _, _)
RECURSIVE handleJmpInstruction(_, _, _, _)

\* instructionSequenceImpl: nodes are the authored instructions, list the
\* slice (of node identities) the call is given, heap the nodes' links.
instructionSequenceImpl(nodes, list, heap) ==
    IF Len(list) = 0
    THEN [root |-> Nil, err |-> "none", heap |-> heap]
    ELSE instructionSequenceLoop(nodes, list, 1, Nil, Nil, heap)

\* LinkJmp without `ptr.SetNextInstruction(jmpInstr)`.
LinkJmpDropsJump(id, h, root, ptr) ==
    IF h.err # "none"
    THEN [root |-> Nil, err |-> h.err, heap |-> h.heap]
    ELSE LET linked == [h.heap EXCEPT ![id].false = h.false, ![id].true = h.true] IN
         IF root = Nil
         THEN [root |-> id, err |-> "none", heap |-> linked]
         ELSE [root |-> root, err |-> "none", heap |-> linked]

\* The jump at list[i] once handleJmpInstruction returned h.
LinkJmp(id, h, root, ptr) ==
    IF h.err # "none"
    THEN [root |-> Nil, err |-> h.err, heap |-> h.heap]
    ELSE LET linked == [h.heap EXCEPT ![id].false = h.false, ![id].true = h.true] IN
         IF root = Nil
         THEN [root |-> id, err |-> "none", heap |-> linked]
         ELSE [root |-> root, err |-> "none",
               heap |-> SetNextInstruction(linked, ptr, id)]

\* The zero-offset test letting Jmp(0) through, as its error message says.
ZeroOffsetRejectedJmpAllowed(instruction) ==
    \/ /\ instruction.kind = "immjmp"
       /\ instruction.fbs = 0
       /\ instruction.op \notin {JmpExit, JmpJA}
    \/ instruction.kind = "regjmp" /\ instruction.fbs = 0

\* The zero-offset test on a jump: an IMM-JMP other than Exit, or a Reg-JMP.
ZeroOffsetRejected(instruction) ==
    \/ instruction.kind = "immjmp" /\ instruction.fbs = 0 /\ instruction.op # JmpExit
    \/ instruction.kind = "regjmp" /\ instruction.fbs = 0

\* Splice without `ptr = instruction`.
SpliceKeepsPtr(id, root, ptr, heap) ==
    IF root = Nil
    THEN [root |-> id, ptr |-> id, heap |-> heap]
    ELSE [root |-> root, ptr |-> ptr, heap |-> SetNextInstruction(heap, ptr, id)]

\* A straight instruction is made root, or the successor of ptr; it is the
\* new ptr.
Splice(id, root, ptr, heap) ==
    IF root = Nil
    THEN [root |-> id, ptr |-> id, heap |-> heap]
    ELSE [root |-> root, ptr |-> id, heap |-> SetNextInstruction(heap, ptr, id)]

\* The for loop of instructionSequenceImpl from index i (1-based) on.
instructionSequenceLoop(nodes, list, i, root, ptr, heap) ==
    IF i > Len(list)
    THEN [root |-> root, err |-> "none", heap |-> heap]
    ELSE LET id == list[i]
             instruction == nodes[id]
         IN
         IF instruction.kind \in {"immjmp", "regjmp"}
         THEN IF ZeroOffsetRejected(instruction)
              THEN [root |-> Nil, err |-> "InvalidZeroOffset", heap |-> heap]
              ELSE LinkJmp(id, handleJmpInstruction(nodes, SubSeq(list, i, Len(list)),
                                                    instruction.fbs, heap), root, ptr)
         ELSE LET s == Splice(id, root, ptr, heap) IN
              instructionSequenceLoop(nodes, list, i + 1, s.root, s.ptr, s.heap)

\* The index (0-based, as in the code) at which the true branch starts.
trueBranchStartIndex(offset) == offset + 1

\* instructions[1:trueBranchStartIndex], 0-based and half-open as in Go.
falseBranchInstrs(list, offset) == SubSeq(list, 2, trueBranchStartIndex(offset))

\* The true branch sliced one instruction too late.
trueBranchInstrsSkipsOne(list, offset) ==
    SubSeq(list, trueBranchStartIndex(offset) + 2, Len(list))

\* instructions[trueBranchStartIndex:]
trueBranchInstrs(list, offset) == SubSeq(list, trueBranchStartIndex(offset) + 1, Len(list))

\* The bounds test with >= for >.
OutOfBoundsOffByOne(list, offset) == trueBranchStartIndex(offset) >= Len(list)

\* The bounds test of handleJmpInstruction.
OutOfBounds(list, offset) == trueBranchStartIndex(offset) > Len(list)

handleJmpInstruction(nodes, list, offset, heap) ==
    IF Len(list) = 0
    THEN [false |-> Nil, true |-> Nil, err |-> "EmptyJumpContext", heap |-> heap]
    ELSE IF OutOfBounds(list, offset)
    THEN [false |-> Nil, true |-> Nil, err |-> "JumpOutOfBounds", heap |-> heap]
    ELSE IF trueBranchStartIndex(offset) < 1
    THEN \* instructions[1:trueBranchStartIndex] with high < low: the slice
         \* expression panics at run time.
         [false |-> Nil, true |-> Nil, err |-> "panic", heap |-> heap]
    ELSE LET f == instructionSequenceImpl(nodes, falseBranchInstrs(list, offset), heap) IN
         IF f.err # "none"
         THEN [false |-> Nil, true |-> Nil, err |-> f.err, heap |-> f.heap]
         ELSE LET t == instructionSequenceImpl(nodes, trueBranchInstrs(list, offset), f.heap) IN
              IF t.err # "none"
              THEN [false |-> Nil, true |-> Nil, err |-> t.err, heap |-> t.heap]
              ELSE [false |-> f.root, true |-> t.root, err |-> "none", heap |-> t.heap]

\* The identities of the nodes of an argument list, in order.
Ids(nodes) == [i \in 1..Len(nodes) |-> i]

FreshHeap(nodes) == [i \in 1..Len(nodes) |-> NoLinks]

\* Argument lists of at most n authored instructions.
Lists(n) == UNION { [1..k -> Authored] : k \in 0..n }

InstructionSequence ==
    /\ built = NotBuilt
    /\ pc = "authoring"
    /\ LET r == instructionSequenceImpl(instructions, Ids(instructions),
                                        FreshHeap(instructions)) IN
       built' = [state |-> "returned", root |-> r.root, err |-> r.err, heap |-> r.heap]
    /\ UNCHANGED instructions
    /\ UNCHANGED progVars

-----------------------------------------------------------------------------
(* Specification of the Program and the factories *)

Init ==
    /\ ProgInit
    /\ instructions = <<>>
    /\ built = NotBuilt

Next ==
    \/ New
    \/ GenerateReturns
    \/ CallMarkRegisterInitialized
    \/ CallGetRandomRegister
    \/ GenerateRandomAluInstruction
    \/ JmpRegOpLoop
    \/ JmpRegSrcLoop
    \/ JmpRegReturn
    \/ StrategyTakes

Spec == Init /\ [][Next]_vars

\* A draw that leaves the opcode loop, and a draw that leaves the src loop.
JmpRegLeavesOpLoop == pc = "jmp_op" /\ JmpRegOpLoop /\ pc' = "jmp_src"
JmpRegLeavesSrcLoop == JmpRegSrcLoop /\ jmp'.src # jmp'.dst

\* A fair RNG: a draw that is possible again and again is made eventually.
\* A running call keeps running: its loops iterate, and once they are left
\* it goes on to its return statement.
FairRNG ==
    /\ SF_vars(JmpRegLeavesOpLoop)
    /\ SF_vars(JmpRegLeavesSrcLoop)
    /\ WF_vars(pc = "jmp_op" /\ JmpRegOpLoop)
    /\ WF_vars(JmpRegSrcLoop)
    /\ WF_vars(JmpRegReturn)

SpecFair == Init /\ [][Next]_vars /\ FairRNG

-----------------------------------------------------------------------------
(* Specification of the sequence builder *)

SeqInit ==
    /\ instructions \in Lists(MaxLen)
    /\ built = NotBuilt
    /\ pc = "authoring"
    /\ logMap = 0
    /\ mapHandle = 0
    /\ MinRegister = 0
    /\ MaxRegister = 0
    /\ trackedRegs = <<>>
    /\ progRoot = Nil
    /\ size = 0
    /\ constructErr = "pending"
    /\ newRet = NoResult
    /\ generateCalls = 0
    /\ ret = NoInstr
    /\ preRegs = <<>>
    /\ marked = {}
    /\ jmp = NoFrame

SeqNext == InstructionSequence

SpecSeq == SeqInit /\ [][SeqNext]_vars

-----------------------------------------------------------------------------
(* Properties of the Program and the factories, checked under Spec *)

Returned(kinds) == pc = "got" /\ ret.kind \in kinds

ValidRegister(r) == r \in 0..LastRegister

\* The register numbers a call can be given or return.
RegisterNumbers == 0..(LastRegister + 1) \cup {NoRegister}

Elems(s) == { s[i] : i \in 1..Len(s) }

\* C1: every non-MOV ALU instruction the factory returns has a dst_reg that
\* is a valid register and was in the tracked list when the call started.
C1_NonMovDstInitialized ==
    (Returned({"aluimm", "alureg"}) /\ ret.op # AluMov)
        => (ValidRegister(ret.dst) /\ IsRegisterInitialized(preRegs, ret.dst))

\* C2: the immediate of a returned ALU-imm LSH/RSH/ARSH lies in [0, 31] for
\* class ALU and in [0, 63] for class ALU64.
C2_ShiftImmInRange ==
    (Returned({"aluimm"}) /\ ret.op \in {AluLsh, AluRsh, AluArsh})
        => ret.imm \in 0..(IF ret.class = InsClassAlu THEN 31 ELSE 63)

\* C6: when Generate returned no root, New reports EmptyProgram and returns
\* no Program.
C6_EmptyProgramReported ==
    (pc = "returned" /\ constructErr = "EmptyProgram")
        => (newRet.err = "EmptyProgram" /\ ~newRet.prog)

\* C7: GetRandomRegister returns 0xFF exactly when no register of
\* [MinRegister, MaxRegister] has been marked initialized, and otherwise a
\* register that was marked and lies in the range.
C7_GetRandomRegister ==
    Returned({"reg"}) =>
        /\ (ret.reg = NoRegister)
               <=> ~(\E r \in marked : InRange(r, MinRegister, MaxRegister))
        /\ (ret.reg # NoRegister)
               => (ret.reg \in marked /\ InRange(ret.reg, MinRegister, MaxRegister))

\* C7 witness: a register was marked and GetRandomRegister returned it.
C7_Witness == Returned({"reg"}) /\ ret.reg # NoRegister /\ Cardinality(marked) >= 2

\* C8: a returned Reg-JMP has dst_reg # src_reg, both valid and initialized,
\* and an opcode other than EXIT, CALL and JA.
C8_JmpRegWellFormed ==
    Returned({"regjmp"}) =>
        /\ ret.dst # ret.src
        /\ ValidRegister(ret.dst) /\ IsRegisterInitialized(preRegs, ret.dst)
        /\ ValidRegister(ret.src) /\ IsRegisterInitialized(preRegs, ret.src)
        /\ ret.op \notin {JmpExit, JmpCALL, JmpJA}

\* C8 witness: GenerateRandomJmpRegInstruction returned.
C8_Witness == Returned({"regjmp"}) /\ preRegs = trackedRegs

\* C10: MarkRegisterInitialized(reg) leaves the list unchanged for reg out of
\* range and appends reg otherwise, changing IsRegisterInitialized for reg
\* only; IsRegisterInitialized(r) holds exactly for the entries of the list.
C10_MarkFrame ==
    /\ Returned({"mark"}) =>
        IF InRange(ret.reg, MinRegister, MaxRegister)
        THEN /\ trackedRegs = Append(preRegs, ret.reg)
             /\ IsRegisterInitialized(trackedRegs, ret.reg)
             /\ \A r \in RegisterNumbers \ {ret.reg} :
                    IsRegisterInitialized(trackedRegs, r)
                        <=> IsRegisterInitialized(preRegs, r)
        ELSE trackedRegs = preRegs
    /\ \A r \in RegisterNumbers :
           IsRegisterInitialized(trackedRegs, r) <=> r \in Elems(trackedRegs)

\* C10 witness: a call with a register out of range, on a non-empty list.
C10_Witness ==
    /\ Returned({"mark"})
    /\ ~InRange(ret.reg, MinRegister, MaxRegister)
    /\ Len(trackedRegs) > 0

\* C11: the src_reg of every returned ALU-reg instruction is a valid register
\* that was in the tracked list when the call started.
C11_AluRegSrcInitialized ==
    Returned({"alureg"})
        => (ValidRegister(ret.src) /\ IsRegisterInitialized(preRegs, ret.src))

\* C12: no returned ALU-reg instruction has op NEG; a drawn NEG is replaced
\* by the op the resampling loop left with.
C12_AluRegNeverNeg ==
    Returned({"alureg"}) =>
        /\ ret.op # AluNeg
        /\ ret.op # ret.drawn => ret.drawn = AluNeg

\* C12 witness: NEG was drawn, the register form chosen, and the
\* instruction returned with the resampled op.
C12_Witness ==
    /\ Returned({"alureg"})
    /\ ret.drawn = AluNeg
    /\ ret.op # AluNeg
    /\ ValidRegister(ret.src)

\* C13: a negative map handle makes New return MapCreationFailed and no
\* Program without running construct (Generate is never invoked); with a
\* non-negative handle construct runs exactly once and LogMap returns the
\* handle.
C13_MapCreation ==
    pc # "idle" =>
        IF mapHandle < 0
        THEN /\ pc = "returned"
             /\ newRet = [prog |-> FALSE, err |-> "MapCreationFailed"]
             /\ generateCalls = 0
             /\ constructErr = "pending"
        ELSE /\ generateCalls = 1
             /\ LogMap = mapHandle
             /\ newRet.err # "MapCreationFailed"
             /\ pc = "returned" => constructErr # "pending"

\* C13 witness: New returned after create_bpf_map gave a negative handle.
C13_Witness == pc = "returned" /\ mapHandle < 0

\* C14: every returned ALU-imm NEG carries immediate 0.
C14_NegImmZero ==
    (Returned({"aluimm"}) /\ ret.op = AluNeg) => ret.imm = 0

\* C14 witness: an ALU-imm NEG on an initialized register was returned (no
\* draw of the RNG is 0).
C14_Witness ==
    /\ Returned({"aluimm"})
    /\ ret.op = AluNeg
    /\ ValidRegister(ret.dst)
    /\ \A d \in ImmDraws : ToInt32(d) # 0

\* C16: a GenerateRandomAluInstruction call that returns leaves the tracked
\* list as it was, except that a MOV whose dst_reg was not tracked appends it;
\* so the tracked set only grows, no tracked register is appended again, and
\* the dst_reg of a returned MOV is reported initialized.
C16_OnlyMovMarks ==
    Returned({"aluimm", "alureg"}) =>
        /\ trackedRegs = IF ret.op = AluMov /\ ~IsRegisterInitialized(preRegs, ret.dst)
                         THEN Append(preRegs, ret.dst)
                         ELSE preRegs
        /\ Elems(preRegs) \subseteq Elems(trackedRegs)
        /\ Elems(trackedRegs) \ Elems(preRegs) \subseteq
               (IF ret.op = AluMov THEN {ret.dst} ELSE {})
        /\ Len(trackedRegs) - Len(preRegs)
               = Cardinality(Elems(trackedRegs) \ Elems(preRegs))
        /\ ret.op = AluMov => IsRegisterInitialized(trackedRegs, ret.dst)

\* C16 witness: a drawn NEG became a register-form MOV on a register that
\* was already tracked, and nothing was appended.
C16_Witness ==
    /\ Returned({"alureg"})
    /\ ret.op = AluMov
    /\ ret.drawn = AluNeg
    /\ IsRegisterInitialized(preRegs, ret.dst)
    /\ trackedRegs = preRegs

\* C18: every entry of the tracked list lies in [MinRegister, MaxRegister],
\* so GetRandomRegister accepts its first draw and always returns.
C18_TrackedInRange ==
    pc \notin {"idle", "authoring"} =>
        /\ \A i \in 1..Len(trackedRegs) :
               InRange(trackedRegs[i], MinRegister, MaxRegister)
        /\ GetRandomRegister(trackedRegs, MinRegister, MaxRegister) # {}
        /\ Len(trackedRegs) > 0 =>
               GetRandomRegister(trackedRegs, MinRegister, MaxRegister)
                   = Elems(trackedRegs)

\* C18 witness: MarkRegisterInitialized was given a register out of range
\* and GenerateRandomJmpRegInstruction returned afterwards.
C18_Witness ==
    /\ Returned({"regjmp"})
    /\ \E r \in marked : ~InRange(r, MinRegister, MaxRegister)
    /\ Len(trackedRegs) >= 2

\* C17: under a fair RNG a GenerateRandomJmpRegInstruction call that has
\* started returns, whatever the tracked list holds.
C17_JmpRegReturns == (pc \in {"jmp_op", "jmp_src"}) ~> (pc = "got")

-----------------------------------------------------------------------------
(* Properties of the sequence builder, checked under SpecSeq *)

Done == built # NotBuilt

IsJump(instruction) == instruction.kind \in {"immjmp", "regjmp"}

\* Position of the first jump of the argument list, 0 when there is none.
FirstJump ==
    IF \E i \in 1..Len(instructions) : IsJump(instructions[i])
    THEN CHOOSE i \in 1..Len(instructions) :
             /\ IsJump(instructions[i])
             /\ \A h \in 1..(i - 1) : ~IsJump(instructions[h])
    ELSE 0

\* For the first jump: its false_branch_size and the instructions after it.
FirstK == instructions[FirstJump].fbs
FirstR == Len(instructions) - FirstJump

\* The node identities between positions a and b.
IdRange(a, b) == [i \in 1..(IF b >= a THEN b - a + 1 ELSE 0) |-> a + i - 1]

\* The builder run on a sub-list alone, on freshly authored nodes.
Alone(ids) == instructionSequenceImpl(instructions, ids, FreshHeap(instructions))

\* The false and the true sub-list of the first jump, built alone.
FalseAlone == Alone(IdRange(FirstJump + 1, FirstJump + FirstK))
TrueAlone == Alone(IdRange(FirstJump + FirstK + 1, Len(instructions)))

\* The first jump passes the zero-offset test and splits within bounds.
FirstJumpSplits ==
    /\ FirstJump # 0
    /\ ~(FirstK = 0 /\ ~(instructions[FirstJump].kind = "immjmp"
                         /\ instructions[FirstJump].op = JmpExit))
    /\ FirstK >= 0
    /\ FirstK <= FirstR

\* The error the sub-lists of the first jump hand up: the false sub-list is
\* built first, the true sub-list only when that succeeded.
NestedErr == IF FalseAlone.err # "none" THEN FalseAlone.err ELSE TrueAlone.err

C4_JumpOutOfBounds ==
    (Done /\ FirstJump # 0 /\ FirstK >= 1) =>
        IF FirstK > FirstR
        THEN built.err = "JumpOutOfBounds" /\ built.root = Nil
        ELSE /\ built.err = NestedErr
             /\ built.err # "none" => built.root = Nil
             /\ (built.err = "none" /\ FirstK = FirstR)
                    => built.heap[FirstJump].true = Nil

\* C4 witness: the first jump is within bounds and a jump inside its false
\* sub-list is not.
C4_Witness ==
    /\ Done
    /\ FirstJump # 0
    /\ FirstK >= 1
    /\ FirstK <= FirstR
    /\ FalseAlone.err = "JumpOutOfBounds"
    /\ built.err = "JumpOutOfBounds"

\* C5: in an accepted list [A1..An, JMP(k), B1..Bk, C1..Cm] the tree is the
\* chain A1 -> .. -> An -> JMP, JMP's false subtree is the tree built from
\* [B1..Bk] alone and its true subtree the tree built from [C1..Cm] alone.
C5_NestingEquivalence ==
    (Done /\ built.err = "none" /\ FirstJump # 0) =>
        /\ built.root = 1
        /\ \A i \in 1..(FirstJump - 1) : built.heap[i].next = i + 1
        /\ built.heap[FirstJump].false = FalseAlone.root
        /\ built.heap[FirstJump].true = TrueAlone.root
        /\ \A i \in (FirstJump + 1)..(FirstJump + FirstK) :
               built.heap[i] = FalseAlone.heap[i]
        /\ \A i \in (FirstJump + FirstK + 1)..Len(instructions) :
               built.heap[i] = TrueAlone.heap[i]

\* C5 witness: an accepted list whose first jump has a conditional jump
\* nested in its false sub-list and a non-empty true sub-list.
C5_Witness ==
    /\ Done
    /\ built.err = "none"
    /\ FirstJump # 0
    /\ FirstK >= 1
    /\ FirstK < FirstR
    /\ IsJump(instructions[FirstJump + 1])
    /\ instructions[FirstJump + 1].fbs >= 1

\* C9: on a non-empty list of straight instructions InstructionSequence
\* returns the first one with no error, and the successor links lead through
\* the list in order and end after the last one.
C9_StraightRoundTrip ==
    (Done /\ Len(instructions) >= 1 /\ FirstJump = 0) =>
        /\ built.err = "none"
        /\ built.root = 1
        /\ \A i \in 1..(Len(instructions) - 1) : built.heap[i].next = i + 1
        /\ built.heap[Len(instructions)].next = Nil
        /\ \A i \in 1..Len(instructions) :
               built.heap[i].false = Nil /\ built.heap[i].true = Nil

\* C9 witness: a straight list of at least three instructions was built.
C9_Witness == Done /\ FirstJump = 0 /\ Len(instructions) >= 3


IsExit(instruction) == instruction.kind = "immjmp" /\ instruction.op = JmpExit

RECURSIVE ReachFrom(_, _, _)
\* The nodes reached from id over next / false_next / true_next links, in
\* paths of at most fuel nodes.
ReachFrom(heap, id, fuel) ==
    IF id = Nil \/ fuel = 0 THEN {}
    ELSE {id} \cup ReachFrom(heap, heap[id].next, fuel - 1)
              \cup ReachFrom(heap, heap[id].false, fuel - 1)
              \cup ReachFrom(heap, heap[id].true, fuel - 1)

\* The nodes of the tree InstructionSequence returned.
TreeNodes == ReachFrom(built.heap, built.root, Len(instructions))

\* The links that point at node id.
Incoming(id) ==
    { <<p, "next">> : p \in { q \in 1..Len(instructions) : built.heap[q].next = id } }
    \cup { <<p, "false">> : p \in { q \in 1..Len(instructions) : built.heap[q].false = id } }
    \cup { <<p, "true">> : p \in { q \in 1..Len(instructions) : built.heap[q].true = id } }

\* Position j starts the true sub-list of an earlier jump.
StartsTrueBranch(j) ==
    \E h \in 1..(j - 1) :
        IsJump(instructions[h]) /\ h + instructions[h].fbs + 1 = j

\* C15: in every returned tree each Exit node has no successor, also when
\* instructions follow the Exit in the list.
C15_ExitIsTerminal ==
    (Done /\ built.err = "none") =>
        \A id \in TreeNodes :
            IsExit(instructions[id]) =>
                /\ built.heap[id].next = Nil
                /\ built.heap[id].false = Nil
                /\ built.heap[id].true = Nil

\* C19: when InstructionSequence succeeds every node of the list is reached
\* from the root, each over exactly one link (the root over none), and a
\* jump that follows a straight instruction of its own list is that
\* instruction's successor.
C19_NodeConservation ==
    (Done /\ built.err = "none") =>
        /\ TreeNodes = 1..Len(instructions)
        /\ Len(instructions) = 0 <=> built.root = Nil
        /\ \A id \in 1..Len(instructions) :
               Cardinality(Incoming(id)) = (IF id = built.root THEN 0 ELSE 1)
        /\ \A j \in 2..Len(instructions) :
               (IsJump(instructions[j]) /\ ~IsJump(instructions[j - 1])) =>
                   ((built.heap[j - 1].next = j) <=> ~StartsTrueBranch(j))

\* C19 witness: an accepted list with a conditional jump first, and inside
\* its true sub-list a straight instruction followed by a jump.
C19_Witness ==
    /\ Done
    /\ built.err = "none"
    /\ Len(instructions) = 4
    /\ FirstJump = 1
    /\ FirstK = 1
    /\ ~IsJump(instructions[3])
    /\ IsJump(instructions[4])
    /\ built.heap[3].next = 4

\* C20: InstructionSequence on a non-empty list, whatever the
\* false_branch_size of its jumps, ends with a tree and no error or with an
\* error and no tree, never with a run-time abort, and a returned tree holds
\* no non-Exit branch with false_branch_size below 1.
C20_NoAbort ==
    (Done /\ Len(instructions) >= 1) =>
        /\ built.err # "panic"
        /\ \/ built.root # Nil /\ built.err = "none"
           \/ built.root = Nil /\ built.err # "none"
        /\ built.err = "none" =>
               \A id \in TreeNodes :
                   (IsJump(instructions[id]) /\ ~IsExit(instructions[id]))
                       => instructions[id].fbs >= 1

====
